---- MODULE Spec2Model ----
(***************************************************************************)
(* State-machine model of the FreeSWITCH event-socket client              *)
(* (src/src/connection.rs): the handshake of EslConnection::new, the      *)
(* reader task it spawns, and the public operations built on send_recv.   *)
(* The peer (the switch) is the environment: it answers each command once,*)
(* in send order, and may send event frames, a disconnect notice, or end  *)
(* the stream.                                                            *)
(***************************************************************************)
EXTENDS Integers, Sequences, FiniteSets, TLC

VARIABLES
    mode,             \* connection_type: "Inbound" or "Outbound"
    hs,               \* progress of EslConnection::new
    hsErr,            \* the error new() returned, "none" while it has not failed
    firstFrame,       \* history: Content-Type of the first frame new() read
    connected,        \* EslConnection.connected (AtomicBool)
    call_uuid,        \* EslConnection.call_uuid is Some
    connection_info,  \* EslConnection.connection_info
    reader,           \* the spawned reader task
    readerWhy,        \* history: why the reader task ended
    sawEnd,           \* history: the reader polled the ended read side
    commands,         \* EslConnection.commands: VecDeque<Sender<Event>>
    background_jobs,  \* EslConnection.background_jobs: HashMap<String, Sender<Event>>
    tx_lock,          \* holder of the transport_tx mutex
    net_out,          \* commands written to the transport, in write order
    net_in,           \* frames decoded from the transport, not yet read
    rx_end,           \* read side of the transport: "open" or "ended"
    srvNext,          \* peer: index in net_out of the next command it answers
    srvSeq,           \* peer: number of frames sent so far
    evLeft,           \* peer: unsolicited frames it may still send
    chan,             \* every oneshot channel created so far
    task,             \* the caller tasks
    calls,            \* public operations started so far
    abandons,         \* public operations abandoned so far
    nextJob,          \* number of correlation ids generated so far
    lost,             \* history: replies the reader dropped on an empty queue
    sequential,       \* history: no two public calls overlapped, none abandoned
    stream,           \* codec: the frames the switch sends, in order
    nread,            \* codec: bytes of the stream read into the buffer so far
    src,              \* codec: the buffer decode works on (BytesMut)
    items,            \* codec: the items decode returned so far
    decoded           \* codec: the result of the last call of decode

vars == <<mode, hs, hsErr, firstFrame, connected, call_uuid, connection_info,
          reader, readerWhy, sawEnd, commands, background_jobs, tx_lock,
          net_out, net_in, rx_end, srvNext, srvSeq, evLeft, chan, task,
          calls, abandons, nextJob, lost, sequential,
          stream, nread, src, items, decoded>>

codecVars == <<stream, nread, src, items, decoded>>
connVars == <<mode, hs, hsErr, firstFrame, connected, call_uuid,
              connection_info, reader, readerWhy, sawEnd, commands,
              background_jobs, tx_lock, net_out, net_in, rx_end, srvNext,
              srvSeq, evLeft, chan, task, calls, abandons, nextJob, lost,
              sequential>>

\* ---------------------------------------------------------------- bounds
MaxCalls == 2
MaxEvents == 1
MaxInFlight == 1
MaxAbandons == 1
MaxFrames == 2

Tasks == {"main", "aux"}
JobIds == 1..MaxCalls

\* ---------------------------------------------------------------- frames
\* An Event as the connection code reads it: the Content-Type header ("none"
\* when the header is absent), the status text carried in Reply-Text or in
\* the body ("none" when absent), and for text/event-json the body: json is
\* "none" (no body), "bad" (not JSON) or "obj", with the fields Job-UUID,
\* Application-UUID (0 absent, -1 present but not a string) and Event-Name.
\* seq numbers the frames the peer sent; re is the index in net_out of the
\* command a reply answers (0 for unsolicited frames); uid tells whether a
\* reply carries Channel-Unique-ID.
Frame(ct, seq, re, txt, json, job, app, name, uid) ==
    [ct |-> ct, seq |-> seq, re |-> re, txt |-> txt, json |-> json,
     job |-> job, app |-> app, name |-> name, uid |-> uid]

NoFrame == Frame("nothing", 0, 0, "none", "none", 0, 0, "ABSENT", FALSE)

\* ------------------------------------------------------------ status text
\* The wire texts the peer may put in Reply-Text or in a body.
TextOf(n) ==
    CASE n = "ok"     -> <<"+", "O", "K", " ", "a", "\n">>
      [] n = "okbare" -> <<"+", "O", "K", "\n">>
      [] n = "err"    -> <<"-", "E", "R", "R", " ", "a", "\n">>
      [] n = "unk"    -> <<"x", " ", "a", "\n">>
      [] n = "nows"   -> <<"+", "O", "K">>

Whitespace == {" ", "\n", "\t"}

\* str::find(char::is_whitespace): 1-based index of the first whitespace, 0 if none
FindWhitespace(s) ==
    IF \E i \in 1..Len(s) : s[i] \in Whitespace
    THEN CHOOSE i \in 1..Len(s) :
            /\ s[i] \in Whitespace
            /\ \A j \in 1..(i - 1) : s[j] \notin Whitespace
    ELSE 0

\* ParseCode for &str
parse_code(tok) ==
    IF tok = <<"+", "O", "K">> THEN "Ok"
    ELSE IF tok = <<"-", "E", "R", "R">> THEN "Err"
    ELSE "Unknown"

\* parse_api_response: Err when the text holds no whitespace, else the code
\* and the text after the first whitespace without its last character
parse_api_response(body) ==
    LET i == FindWhitespace(body) IN
    IF i = 0 THEN [ok |-> FALSE, code |-> "Unknown", text |-> <<>>]
    ELSE [ok   |-> TRUE,
          code |-> parse_code(SubSeq(body, 1, i - 1)),
          text |-> IF i < Len(body) THEN SubSeq(body, i + 1, Len(body) - 1)
                   ELSE <<>>]

\* -------------------------------------------------------------- channels
\* A oneshot channel: val is the frame sent into it (NoFrame before), rx
\* tells whether the receiving half is still alive, n counts the sends.
\* History fields: cmd is the index in net_out of the command whose reply
\* the channel awaits (0 for a job channel), jid the correlation id it was
\* registered under (0 for a FIFO channel), kind the operation that made it.
NewChan(cmd, jid, kind) ==
    [val |-> NoFrame, rx |-> TRUE, n |-> 0, cmd |-> cmd, jid |-> jid, kind |-> kind]

\* oneshot::Sender::send on a live channel
Deliver(ch, c, f) == [ch EXCEPT ![c].val = f, ![c].n = @ + 1]

\* The frame rx.await returned leaves the channel; what stays is the record
\* that the channel was resolved (n).
Taken == "taken"
Take(c) == [chan EXCEPT ![c].val = [NoFrame EXCEPT !.ct = Taken]]

IdleTask == [pc |-> "idle", op |-> "none", cmd |-> 0, ch |-> 0, job |-> 0,
             jch |-> 0, res |-> "none"]

\* ----------------------------------------------------------------- codec
\* EslCodec of src/src/io.rs. A buffer is a sequence of pieces: a header
\* line "Key: Value" (k the key, v the value), the newline character, or one
\* body byte.
Line(k, v) == [k |-> k, v |-> v]
NL == [k |-> "\n", v |-> ""]
Byte(b) == [k |-> "byte", v |-> b]

ContentType(v) == Line("Content-Type", v)
ContentLength2 == Line("Content-Length", "2")
ReplyText == Line("Reply-Text", "+OK")

\* usize::from_str of a Content-Length value ("2" is the only value on the
\* wire here)
ParseLength(v) == CASE v = "2" -> 2 [] OTHER -> 0

\* The frames the switch sends, as they are on the wire: the header lines,
\* each ended by a newline, an empty line, then the body.
WireFrame(n) ==
    CASE n = "auth"   -> <<ContentType("auth/request"), NL, NL>>
      [] n = "reply"  -> <<ContentType("command/reply"), NL, ReplyText, NL, NL>>
      [] n = "api"    -> <<ContentType("api/response"), NL, ContentLength2, NL, NL,
                           Byte("a"), Byte("b")>>
      [] n = "event"  -> <<ContentType("text/event-json"), NL, ContentLength2, NL, NL,
                           Byte("{"), Byte("}")>>
      [] n = "notice" -> <<ContentType("text/disconnect-notice"), NL,
                           ContentLength2, NL, NL, Byte("a"), Byte("b")>>
      [] n = "rude"   -> <<ContentType("text/rude-rejection"), NL, NL>>
      [] n = "plain"  -> <<ContentType("text/plain"), NL, NL>>
      [] n = "notype" -> <<ReplyText, NL, NL>>

\* the content types decode has an arm for, and all the frames of the model
DecodedKinds == {"auth", "reply", "api", "event"}
FrameKinds == DecodedKinds \cup {"notice", "rude", "plain", "notype"}

RECURSIVE Flatten(_)
Flatten(fs) == IF fs = <<>> THEN <<>> ELSE WireFrame(Head(fs)) \o Flatten(Tail(fs))

\* get_header_end: the position of the first newline that is followed by a
\* newline, 0 when there is none (positions count from 1)
get_header_end(b) ==
    LET ends == {i \in 1..(Len(b) - 1) : b[i] = NL /\ b[i + 1] = NL} IN
    IF ends = {} THEN 0
    ELSE CHOOSE i \in ends : \A j \in ends : i <= j

\* str::split('\n')
RECURSIVE SplitLines(_)
SplitLines(h) ==
    LET nls == {i \in 1..Len(h) : h[i] = NL} IN
    IF nls = {} THEN <<h>>
    ELSE LET j == CHOOSE i \in nls : \A m \in nls : i <= m IN
         <<SubSeq(h, 1, j - 1)>> \o SplitLines(SubSeq(h, j + 1, Len(h)))

\* a line holds a colon when a header line is part of it
HasColon(l) == \E i \in 1..Len(l) : l[i].k \notin {NL.k, "byte"}
LineKey(l) == IF Len(l) = 1 THEN l[1].k ELSE "?"
LineValue(l) == IF Len(l) = 1 THEN l[1].v ELSE "?"

\* parse_header: panics (ok = FALSE) on a line without a colon, else the
\* map of the header lines; the last line with a key wins
parse_header(h) ==
    LET ls == SplitLines(h) IN
    IF \E i \in 1..Len(ls) : ~HasColon(ls[i])
    THEN [ok |-> FALSE, map |-> <<>>]
    ELSE [ok  |-> TRUE,
          map |-> [key \in {LineKey(ls[i]) : i \in 1..Len(ls)} |->
                     LET last == CHOOSE i \in 1..Len(ls) :
                                    /\ LineKey(ls[i]) = key
                                    /\ \A j \in (i + 1)..Len(ls) : LineKey(ls[j]) # key
                     IN LineValue(ls[last])]]

\* parse_body: src[2..length + 2], a panic (ok = FALSE) when the slice is
\* out of range
parse_body(r, length) ==
    IF length + 2 > Len(r) THEN [ok |-> FALSE, body |-> <<>>]
    ELSE [ok |-> TRUE, body |-> SubSeq(r, 3, length + 2)]

\* parse_json_body: the same slice, then serde_json::from_str(..).unwrap()
parse_json_body(r, length) ==
    LET b == parse_body(r, length) IN
    IF b.ok /\ b.body = <<Byte("{"), Byte("}")>> THEN b
    ELSE [ok |-> FALSE, body |-> <<>>]

\* What a call of decode makes: Ok(None), Ok(Some(item)) or a panic; Readable
\* is the state of the framed reader after a read, NotDecoded before any.
NotDecoded == [res |-> "idle", why |-> "none", kind |-> "none", body |-> <<>>]
Readable == [res |-> "read", why |-> "none", kind |-> "none", body |-> <<>>]
Need == [res |-> "None", why |-> "none", kind |-> "none", body |-> <<>>]
Panic(why) == [res |-> "panic", why |-> why, kind |-> "none", body |-> <<>>]
Item(kind, body) == [res |-> "Item", why |-> "none", kind |-> kind, body |-> body]

\* Decoder::decode: the result, and the buffer it leaves
decode(b) ==
    LET x == get_header_end(b) IN
    IF x = 0 THEN [out |-> Need, rest |-> b]
    ELSE
    LET headers == parse_header(SubSeq(b, 1, x - 1))
        r == SubSeq(b, x, Len(b))
    IN
    IF ~headers.ok THEN [out |-> Panic("parse_header"), rest |-> b]
    ELSE IF "Content-Type" \notin DOMAIN headers.map
    THEN [out |-> Panic("should not reach here"), rest |-> b]
    ELSE
    LET ct == headers.map["Content-Type"]
        hasLen == "Content-Length" \in DOMAIN headers.map
        len == IF hasLen THEN ParseLength(headers.map["Content-Length"]) ELSE 0
    IN
    CASE ct = "auth/request" -> [out |-> Item("Auth", <<>>), rest |-> <<>>]
      [] ct = "api/response" ->
            IF ~hasLen THEN [out |-> Panic("content_length not found"), rest |-> b]
            ELSE IF ~parse_body(r, len).ok
                 THEN [out |-> Panic("slice"), rest |-> b]
                 ELSE [out |-> Item("ApiResponse", parse_body(r, len).body),
                       rest |-> <<>>]
      [] ct = "command/reply" -> [out |-> Item("Reply", b), rest |-> <<>>]
      [] ct = "text/event-json" ->
            IF ~hasLen THEN [out |-> Panic("content_length not found"), rest |-> b]
            ELSE IF ~parse_json_body(r, len).ok
                 THEN [out |-> Panic("parse_json_body"), rest |-> b]
                 ELSE [out |-> Item("ApiResponse", parse_json_body(r, len).body),
                       rest |-> <<>>]
      [] OTHER -> [out |-> Panic("not handled"), rest |-> b]

\* ------------------------------------------------------------------ Init
\* no bytes on the wire, nothing decoded
CodecIdle ==
    /\ stream = <<>>
    /\ nread = 0
    /\ src = <<>>
    /\ items = <<>>
    /\ decoded = NotDecoded

\* the connection before EslConnection::new has run
Unconstructed ==
    /\ mode \in {"Inbound", "Outbound"}
    /\ hs = "new"
    /\ hsErr = "none"
    /\ firstFrame = "unread"
    /\ connected = FALSE
    /\ call_uuid = FALSE
    /\ connection_info = "none"
    /\ reader = "unspawned"
    /\ readerWhy = "none"
    /\ sawEnd = FALSE
    /\ commands = <<>>
    /\ background_jobs = <<>>
    /\ tx_lock = "free"
    /\ net_out = <<>>
    /\ net_in = <<>>
    /\ rx_end = "open"
    /\ srvNext = 1
    /\ srvSeq = 0
    /\ evLeft = MaxEvents
    /\ chan = <<>>
    /\ task = [t \in Tasks |-> IdleTask]
    /\ calls = 0
    /\ abandons = 0
    /\ nextJob = 0
    /\ lost = {}
    /\ sequential = TRUE

Init == Unconstructed /\ CodecIdle

\* ------------------------------------------------------------------ peer
\* The switch. It answers every command once, in send order; the content of
\* a reply is its own choice.
AuthTexts == {"ok", "okbare", "err", "unk", "nows", "none"}
ApiTexts == {"ok", "err", "unk"}

ReplyFrames(cmd, seq, re) ==
    CASE cmd.op = "auth" ->
            {Frame("command/reply", seq, re, x, "none", 0, 0, "ABSENT", FALSE) :
                x \in AuthTexts}
      [] cmd.op = "api" ->
            {Frame("api/response", seq, re, x, "none", 0, 0, "ABSENT", FALSE) :
                x \in ApiTexts}
      [] cmd.op = "connect" ->
            {Frame("command/reply", seq, re, "ok", "none", 0, 0, "ABSENT", u) :
                u \in BOOLEAN}
      [] OTHER ->
            {Frame("command/reply", seq, re, "ok", "none", 0, 0, "ABSENT", FALSE)}

\* Bodies of the text/event-json frames the peer may send: job completions
\* (Job-UUID, with the status text of _body), an execute completion and
\* another event carrying Application-UUID, and an event without a body.
EventFrames(seq) ==
       {Frame("text/event-json", seq, 0, "ok", "obj", j, 0, "BACKGROUND_JOB", FALSE) :
            j \in JobIds}
  \cup {Frame("text/event-json", seq, 0, "ok", "obj", 0, 1, n, FALSE) :
            n \in {"CHANNEL_EXECUTE_COMPLETE", "OTHER"}}
  \cup {Frame("text/event-json", seq, 0, "err", "obj", 1, 0, "BACKGROUND_JOB", FALSE),
        Frame("text/event-json", seq, 0, "none", "none", 0, 0, "ABSENT", FALSE)}

PeerSend(f) ==
    /\ rx_end = "open"
    /\ Len(net_in) < MaxInFlight
    /\ net_in' = Append(net_in, f)
    /\ srvSeq' = srvSeq + 1

\* the first frame the switch sends to an inbound client
PeerHello ==
    /\ mode = "Inbound"
    /\ srvSeq = 0
    /\ \E ct \in {"auth/request", "text/rude-rejection", "text/other", "none"} :
          PeerSend(Frame(ct, 1, 0, "none", "none", 0, 0, "ABSENT", FALSE))
    /\ UNCHANGED <<codecVars, mode, hs, hsErr, firstFrame, connected, call_uuid,
                   connection_info, reader, readerWhy, sawEnd, commands,
                   background_jobs, tx_lock, net_out, rx_end, srvNext, evLeft,
                   chan, task, calls, abandons, nextJob, lost, sequential>>

PeerReply ==
    /\ srvNext <= Len(net_out)
    /\ \E f \in ReplyFrames(net_out[srvNext], srvSeq + 1, srvNext) : PeerSend(f)
    /\ srvNext' = srvNext + 1
    /\ UNCHANGED <<codecVars, mode, hs, hsErr, firstFrame, connected, call_uuid,
                   connection_info, reader, readerWhy, sawEnd, commands,
                   background_jobs, tx_lock, net_out, rx_end, evLeft, chan,
                   task, calls, abandons, nextJob, lost, sequential>>

\* The switch sends events once it has answered an "event json" command.
Subscribed == \E i \in 1..(srvNext - 1) : net_out[i].op = "subscribe"

PeerEvent ==
    /\ Subscribed
    /\ evLeft > 0
    /\ \E f \in EventFrames(srvSeq + 1) : PeerSend(f)
    /\ evLeft' = evLeft - 1
    /\ UNCHANGED <<codecVars, mode, hs, hsErr, firstFrame, connected, call_uuid,
                   connection_info, reader, readerWhy, sawEnd, commands,
                   background_jobs, tx_lock, net_out, rx_end, srvNext, chan,
                   task, calls, abandons, nextJob, lost, sequential>>

PeerDisconnectNotice ==
    /\ hs # "new"
    /\ evLeft > 0
    /\ PeerSend(Frame("text/disconnect-notice", srvSeq + 1, 0, "none", "none",
                      0, 0, "ABSENT", FALSE))
    /\ evLeft' = evLeft - 1
    /\ UNCHANGED <<codecVars, mode, hs, hsErr, firstFrame, connected, call_uuid,
                   connection_info, reader, readerWhy, sawEnd, commands,
                   background_jobs, tx_lock, net_out, rx_end, srvNext, chan,
                   task, calls, abandons, nextJob, lost, sequential>>

\* the read side ends: end of stream, or a read/decode error
PeerClose ==
    /\ rx_end = "open"
    /\ rx_end' = "ended"
    /\ UNCHANGED <<codecVars, mode, hs, hsErr, firstFrame, connected, call_uuid,
                   connection_info, reader, readerWhy, sawEnd, commands,
                   background_jobs, tx_lock, net_out, net_in, srvNext, srvSeq,
                   evLeft, chan, task, calls, abandons, nextJob, lost, sequential>>

\* ----------------------------------------------------- EslConnection::new
StartOp(t, op) == [task EXCEPT ![t] = [IdleTask EXCEPT !.pc = "send", !.op = op]]

\* What new() does with the Content-Type of the first frame (lines 88-94)
FirstFrameVerdict(ct) ==
    CASE ct = "auth/request" -> "continue"
      [] ct = "text/rude-rejection" -> "Rejected"
      [] ct = "none" -> "continue"
      [] OTHER -> "InvalidInitial"

\* Inbound: read one frame, then build the connection, spawn the reader and
\* enter auth(); no await separates these.
NewInbound ==
    /\ hs = "new"
    /\ mode = "Inbound"
    /\ ~(net_in = <<>> /\ rx_end = "open")
    /\ IF net_in # <<>>
       THEN LET v == FirstFrameVerdict(Head(net_in).ct) IN
            /\ firstFrame' = Head(net_in).ct
            /\ net_in' = Tail(net_in)
            /\ IF v = "continue"
               THEN /\ hs' = "handshaking"
                    /\ hsErr' = hsErr
                    /\ reader' = "running"
                    /\ task' = StartOp("main", "auth")
               ELSE /\ hs' = "failed"
                    /\ hsErr' = v
                    /\ UNCHANGED <<reader, task>>
       ELSE /\ firstFrame' = "end"
            /\ hs' = "failed"
            /\ hsErr' = "NoAuthRequest"
            /\ UNCHANGED <<net_in, reader, task>>
    /\ UNCHANGED <<codecVars, mode, connected, call_uuid, connection_info, readerWhy,
                   sawEnd, commands, background_jobs, tx_lock, net_out, rx_end,
                   srvNext, srvSeq, evLeft, chan, calls, abandons, nextJob, lost,
                   sequential>>

\* Outbound: build the connection, spawn the reader and send "connect"
NewOutbound ==
    /\ hs = "new"
    /\ mode = "Outbound"
    /\ hs' = "handshaking"
    /\ reader' = "running"
    /\ task' = StartOp("main", "connect")
    /\ UNCHANGED <<codecVars, mode, hsErr, firstFrame, connected, call_uuid,
                   connection_info, readerWhy, sawEnd, commands,
                   background_jobs, tx_lock, net_out, net_in, rx_end, srvNext,
                   srvSeq, evLeft, chan, calls, abandons, nextJob, lost, sequential>>

\* ------------------------------------------------------------- send_recv
\* send(): take the transport_tx mutex ...
SendLock(t) ==
    /\ task[t].pc = "send"
    /\ tx_lock = "free"
    /\ tx_lock' = t
    /\ task' = [task EXCEPT ![t].pc = "write"]
    /\ UNCHANGED <<codecVars, mode, hs, hsErr, firstFrame, connected, call_uuid,
                   connection_info, reader, readerWhy, sawEnd, commands,
                   background_jobs, net_out, net_in, rx_end, srvNext, srvSeq,
                   evLeft, chan, calls, abandons, nextJob, lost, sequential>>

\* send() with the guard of the transport mutex kept after the write
SendWrite_KeepLock(t) ==
    /\ task[t].pc = "write"
    /\ tx_lock = t
    /\ net_out' = Append(net_out, [op |-> task[t].op, job |-> task[t].job])
    /\ tx_lock' = tx_lock
    /\ task' = [task EXCEPT ![t].pc = "push", ![t].cmd = Len(net_out) + 1]
    /\ UNCHANGED <<codecVars, mode, hs, hsErr, firstFrame, connected, call_uuid,
                   connection_info, reader, readerWhy, sawEnd, commands,
                   background_jobs, net_in, rx_end, srvNext, srvSeq, evLeft,
                   chan, calls, abandons, nextJob, lost, sequential>>

\* ... write the command and release the mutex
SendWrite(t) ==
    /\ task[t].pc = "write"
    /\ tx_lock = t
    /\ net_out' = Append(net_out, [op |-> task[t].op, job |-> task[t].job])
    /\ tx_lock' = "free"
    /\ task' = [task EXCEPT ![t].pc = "push", ![t].cmd = Len(net_out) + 1]
    /\ UNCHANGED <<codecVars, mode, hs, hsErr, firstFrame, connected, call_uuid,
                   connection_info, reader, readerWhy, sawEnd, commands,
                   background_jobs, net_in, rx_end, srvNext, srvSeq, evLeft,
                   chan, calls, abandons, nextJob, lost, sequential>>

\* send_recv after send() returned: create the channel and push its sender
PushBack(t) ==
    /\ task[t].pc = "push"
    /\ chan' = Append(chan, NewChan(task[t].cmd, 0, task[t].op))
    /\ commands' = Append(commands, Len(chan) + 1)
    /\ task' = [task EXCEPT ![t].pc = "wait", ![t].ch = Len(chan) + 1]
    /\ UNCHANGED <<codecVars, mode, hs, hsErr, firstFrame, connected, call_uuid,
                   connection_info, reader, readerWhy, sawEnd, background_jobs,
                   tx_lock, net_out, net_in, rx_end, srvNext, srvSeq, evLeft,
                   calls, abandons, nextJob, lost, sequential>>

\* rx.await of send_recv has a frame for task t running operation op
Received(t, op) ==
    /\ task[t].pc = "wait"
    /\ task[t].op = op
    /\ chan[task[t].ch].val.ct \notin {NoFrame.ct, Taken}

Finish(t, res) == [task EXCEPT ![t] = [IdleTask EXCEPT !.res = res]]

\* The write of send() fails (the peer has closed the connection): send()
\* returns the error and `?` passes it up; the operation returns it with the
\* receiving half of its job channel dropped and its table entry left, and
\* a construction fails
SendFail(t) ==
    /\ task[t].pc = "write"
    /\ tx_lock = t
    /\ rx_end = "ended"
    /\ tx_lock' = "free"
    /\ task' = Finish(t, "TransportError")
    /\ chan' = [c \in DOMAIN chan |->
                    IF c = task[t].jch THEN [chan[c] EXCEPT !.rx = FALSE]
                    ELSE chan[c]]
    /\ hs' = CASE hs = "handshaking" -> "failed"
                [] hs = "disconnecting" -> "closed"
                [] OTHER -> hs
    /\ hsErr' = IF hs = "handshaking" THEN "TransportError" ELSE hsErr
    /\ UNCHANGED <<codecVars, mode, firstFrame, connected, call_uuid,
                   connection_info, reader, readerWhy, sawEnd, commands,
                   background_jobs, net_out, net_in, rx_end, srvNext, srvSeq,
                   evLeft, calls, abandons, nextJob, lost, sequential>>

\* ------------------------------------------------------------- handshake
\* auth() without the Code::Err arm
AuthVerdict_NoErrArm(txt) ==
    IF txt = "none" THEN "NoReplyText"
    ELSE LET r == parse_api_response(TextOf(txt)) IN
         IF ~r.ok THEN "ParseError"
         ELSE IF r.code = "Unknown" THEN "UnknownCode" ELSE "Ok"

\* auth(): what the parsed Reply-Text makes of the connection (lines 210-224)
AuthVerdict(txt) ==
    IF txt = "none" THEN "NoReplyText"
    ELSE LET r == parse_api_response(TextOf(txt)) IN
         IF ~r.ok THEN "ParseError"
         ELSE CASE r.code = "Ok" -> "Ok"
                [] r.code = "Err" -> "AuthFailed"
                [] OTHER -> "UnknownCode"

AuthRecv ==
    /\ Received("main", "auth")
    /\ LET v == AuthVerdict(chan[task["main"].ch].val.txt) IN
       IF v = "Ok"
       THEN /\ connected' = TRUE
            /\ task' = StartOp("main", "subscribe")
            /\ UNCHANGED <<hs, hsErr>>
       ELSE /\ hs' = "failed"
            /\ hsErr' = v
            /\ task' = Finish("main", v)
            /\ UNCHANGED connected
    /\ chan' = Take(task["main"].ch)
    /\ UNCHANGED <<codecVars, mode, firstFrame, call_uuid, connection_info, reader,
                   readerWhy, sawEnd, commands, background_jobs, tx_lock,
                   net_out, net_in, rx_end, srvNext, srvSeq, evLeft, calls,
                   abandons, nextJob, lost, sequential>>

\* the reply to "event json ..." of the handshake
SubscribeRecv ==
    /\ Received("main", "subscribe")
    /\ IF mode = "Inbound"
       THEN /\ hs' = "ready"
            /\ task' = Finish("main", "Ok")
       ELSE /\ hs' = hs
            /\ task' = StartOp("main", "myevents")
    /\ chan' = Take(task["main"].ch)
    /\ UNCHANGED <<codecVars, mode, hsErr, firstFrame, connected, call_uuid,
                   connection_info, reader, readerWhy, sawEnd, commands,
                   background_jobs, tx_lock, net_out, net_in, rx_end, srvNext,
                   srvSeq, evLeft, calls, abandons, nextJob, lost, sequential>>

\* the reply to "connect": its headers become connection_info
ConnectRecv ==
    /\ Received("main", "connect")
    /\ connection_info' = IF chan[task["main"].ch].val.uid THEN "uid" ELSE "nouid"
    /\ task' = StartOp("main", "subscribe")
    /\ chan' = Take(task["main"].ch)
    /\ UNCHANGED <<codecVars, mode, hs, hsErr, firstFrame, connected, call_uuid, reader,
                   readerWhy, sawEnd, commands, background_jobs, tx_lock,
                   net_out, net_in, rx_end, srvNext, srvSeq, evLeft, calls,
                   abandons, nextJob, lost, sequential>>

\* the reply to "myevents" with the identifier taken only if it is there
MyeventsRecv_NoUidCheck ==
    /\ Received("main", "myevents")
    /\ call_uuid' = (connection_info = "uid")
    /\ hs' = "ready"
    /\ task' = Finish("main", "Ok")
    /\ chan' = Take(task["main"].ch)
    /\ UNCHANGED <<codecVars, mode, hsErr, firstFrame, connected, connection_info, reader,
                   readerWhy, sawEnd, commands, background_jobs, tx_lock,
                   net_out, net_in, rx_end, srvNext, srvSeq, evLeft, calls,
                   abandons, nextJob, lost, sequential>>

\* the reply to "myevents", then Channel-Unique-ID is unwrapped
MyeventsRecv ==
    /\ Received("main", "myevents")
    /\ IF connection_info = "uid"
       THEN /\ call_uuid' = TRUE
            /\ hs' = "ready"
            /\ task' = Finish("main", "Ok")
       ELSE /\ call_uuid' = call_uuid
            /\ hs' = "panicked"
            /\ task' = Finish("main", "panic")
    /\ chan' = Take(task["main"].ch)
    /\ UNCHANGED <<codecVars, mode, hsErr, firstFrame, connected, connection_info, reader,
                   readerWhy, sawEnd, commands, background_jobs, tx_lock,
                   net_out, net_in, rx_end, srvNext, srvSeq, evLeft, calls,
                   abandons, nextJob, lost, sequential>>

\* ----------------------------------------------------- public operations
OthersIdle(t) == \A u \in Tasks \ {t} : task[u].pc = "idle"

ApiCall(t) ==
    /\ hs = "ready"
    /\ task[t].pc = "idle"
    /\ calls < MaxCalls
    /\ calls' = calls + 1
    /\ task' = StartOp(t, "api")
    /\ sequential' = (sequential /\ OthersIdle(t))
    /\ UNCHANGED <<codecVars, mode, hs, hsErr, firstFrame, connected, call_uuid,
                   connection_info, reader, readerWhy, sawEnd, commands,
                   background_jobs, tx_lock, net_out, net_in, rx_end, srvNext,
                   srvSeq, evLeft, chan, abandons, nextJob, lost>>

\* api(): what the body of the reply makes of the call (lines 257-267)
ApiVerdict(txt) ==
    IF txt = "none" THEN "InternalError"
    ELSE LET r == parse_api_response(TextOf(txt)) IN
         IF ~r.ok THEN "InternalError"
         ELSE CASE r.code = "Ok" -> "Ok"
                [] r.code = "Err" -> "ApiError"
                [] OTHER -> "Raw"

ApiRecv(t) ==
    /\ Received(t, "api")
    /\ task' = Finish(t, ApiVerdict(chan[task[t].ch].val.txt))
    /\ chan' = Take(task[t].ch)
    /\ UNCHANGED <<codecVars, mode, hs, hsErr, firstFrame, connected, call_uuid,
                   connection_info, reader, readerWhy, sawEnd, commands,
                   background_jobs, tx_lock, net_out, net_in, rx_end, srvNext,
                   srvSeq, evLeft, calls, abandons, nextJob, lost, sequential>>

\* the table left without the new entry
InsertJob_Forget(tbl, k, c) == tbl

\* HashMap::insert
InsertJob(tbl, k, c) == (k :> c) @@ tbl

\* bgapi(): a fresh id, its channel registered in background_jobs
BgapiCall(t) ==
    /\ hs = "ready"
    /\ task[t].pc = "idle"
    /\ calls < MaxCalls
    /\ calls' = calls + 1
    /\ nextJob' = nextJob + 1
    /\ chan' = Append(chan, NewChan(0, nextJob + 1, "bgapi"))
    /\ background_jobs' = InsertJob(background_jobs, nextJob + 1, Len(chan) + 1)
    /\ task' = [task EXCEPT ![t] = [IdleTask EXCEPT !.pc = "send", !.op = "bgapi",
                                      !.job = nextJob + 1, !.jch = Len(chan) + 1]]
    /\ sequential' = (sequential /\ OthersIdle(t))
    /\ UNCHANGED <<codecVars, mode, hs, hsErr, firstFrame, connected, call_uuid,
                   connection_info, reader, readerWhy, sawEnd, commands,
                   tx_lock, net_out, net_in, rx_end, srvNext, srvSeq, evLeft,
                   abandons, lost>>

\* bgapi(): the command reply arrived; now await the job's event
BgapiAck(t) ==
    /\ Received(t, "bgapi")
    /\ task' = [task EXCEPT ![t].pc = "waitjob"]
    /\ chan' = Take(task[t].ch)
    /\ UNCHANGED <<codecVars, mode, hs, hsErr, firstFrame, connected, call_uuid,
                   connection_info, reader, readerWhy, sawEnd, commands,
                   background_jobs, tx_lock, net_out, net_in, rx_end, srvNext,
                   srvSeq, evLeft, calls, abandons, nextJob, lost, sequential>>

\* bgapi(): the event arrived; its _body carries the status text
BgapiRecv(t) ==
    /\ task[t].pc = "waitjob"
    /\ task[t].op = "bgapi"
    /\ chan[task[t].jch].val.ct \notin {NoFrame.ct, Taken}
    /\ task' = Finish(t, ApiVerdict(chan[task[t].jch].val.txt))
    /\ chan' = Take(task[t].jch)
    /\ UNCHANGED <<codecVars, mode, hs, hsErr, firstFrame, connected, call_uuid,
                   connection_info, reader, readerWhy, sawEnd, commands,
                   background_jobs, tx_lock, net_out, net_in, rx_end, srvNext,
                   srvSeq, evLeft, calls, abandons, nextJob, lost, sequential>>

\* execute(): a fresh id, its channel registered in background_jobs, then
\* call_uuid is unwrapped: without a call identifier the calling task panics
\* and the entry stays in the table
ExecuteCall(t) ==
    /\ hs = "ready"
    /\ task[t].pc = "idle"
    /\ calls < MaxCalls
    /\ calls' = calls + 1
    /\ nextJob' = nextJob + 1
    /\ background_jobs' = InsertJob(background_jobs, nextJob + 1, Len(chan) + 1)
    /\ IF call_uuid
       THEN /\ chan' = Append(chan, NewChan(0, nextJob + 1, "execute"))
            /\ task' = [task EXCEPT ![t] = [IdleTask EXCEPT !.pc = "send",
                                              !.op = "execute",
                                              !.job = nextJob + 1,
                                              !.jch = Len(chan) + 1]]
       ELSE /\ chan' = Append(chan, [NewChan(0, nextJob + 1, "execute")
                                        EXCEPT !.rx = FALSE])
            /\ task' = Finish(t, "panic")
    /\ sequential' = (sequential /\ OthersIdle(t))
    /\ UNCHANGED <<codecVars, mode, hs, hsErr, firstFrame, connected, call_uuid,
                   connection_info, reader, readerWhy, sawEnd, commands,
                   tx_lock, net_out, net_in, rx_end, srvNext, srvSeq, evLeft,
                   abandons, lost>>

\* execute(): the reply to sendmsg arrived; now await the completion event
ExecuteAck(t) ==
    /\ Received(t, "execute")
    /\ task' = [task EXCEPT ![t].pc = "waitjob"]
    /\ chan' = Take(task[t].ch)
    /\ UNCHANGED <<codecVars, mode, hs, hsErr, firstFrame, connected, call_uuid,
                   connection_info, reader, readerWhy, sawEnd, commands,
                   background_jobs, tx_lock, net_out, net_in, rx_end, srvNext,
                   srvSeq, evLeft, calls, abandons, nextJob, lost, sequential>>

\* execute(): the completion event arrived and is returned
ExecuteRecv(t) ==
    /\ task[t].pc = "waitjob"
    /\ task[t].op = "execute"
    /\ chan[task[t].jch].val.ct \notin {NoFrame.ct, Taken}
    /\ task' = Finish(t, "Ok")
    /\ chan' = Take(task[t].jch)
    /\ UNCHANGED <<codecVars, mode, hs, hsErr, firstFrame, connected, call_uuid,
                   connection_info, reader, readerWhy, sawEnd, commands,
                   background_jobs, tx_lock, net_out, net_in, rx_end, srvNext,
                   srvSeq, evLeft, calls, abandons, nextJob, lost, sequential>>

\* disconnect(self): the handle is given up (no other call can be running
\* on it, none can start after), "exit" is sent ...
DisconnectCall(t) ==
    /\ hs = "ready"
    /\ \A u \in Tasks : task[u].pc = "idle"
    /\ calls < MaxCalls
    /\ calls' = calls + 1
    /\ hs' = "disconnecting"
    /\ task' = StartOp(t, "exit")
    /\ UNCHANGED <<codecVars, mode, hsErr, firstFrame, connected, call_uuid,
                   connection_info, reader, readerWhy, sawEnd, commands,
                   background_jobs, tx_lock, net_out, net_in, rx_end, srvNext,
                   srvSeq, evLeft, chan, abandons, nextJob, lost, sequential>>

\* ... and after its reply connected is stored false and the connection dropped
DisconnectRecv(t) ==
    /\ Received(t, "exit")
    /\ connected' = FALSE
    /\ hs' = "closed"
    /\ task' = Finish(t, "Ok")
    /\ chan' = Take(task[t].ch)
    /\ UNCHANGED <<codecVars, mode, hsErr, firstFrame, call_uuid,
                   connection_info, reader, readerWhy, sawEnd, commands,
                   background_jobs, tx_lock, net_out, net_in, rx_end, srvNext,
                   srvSeq, evLeft, calls, abandons, nextJob, lost, sequential>>

\* The caller drops the future of a public call while it awaits a channel
\* (a timeout or select around the call): the receiving halves are dropped.
Abandon(t) ==
    /\ hs = "ready"
    /\ task[t].pc \in {"wait", "waitjob"}
    /\ abandons < MaxAbandons
    /\ abandons' = abandons + 1
    /\ chan' = [c \in DOMAIN chan |->
                    IF (c = task[t].ch /\ task[t].pc = "wait") \/ c = task[t].jch
                    THEN [chan[c] EXCEPT !.rx = FALSE] ELSE chan[c]]
    /\ task' = Finish(t, "Cancelled")
    /\ sequential' = FALSE
    /\ UNCHANGED <<codecVars, mode, hs, hsErr, firstFrame, connected, call_uuid,
                   connection_info, reader, readerWhy, sawEnd, commands,
                   background_jobs, tx_lock, net_out, net_in, rx_end, srvNext,
                   srvSeq, evLeft, calls, nextJob, lost>>

\* ----------------------------------------------------------- reader task
\* the match without `continue` in the text/event-json arm
Route_EventFallsThrough(f) ==
    CASE f.ct = "text/disconnect-notice" -> "exit"
      [] OTHER -> "fifo"

\* The match on Content-Type in the reader loop (lines 108-161)
Route(f) ==
    CASE f.ct = "text/disconnect-notice" -> "exit"
      [] f.ct = "text/event-json" -> "event"
      [] OTHER -> "fifo"

\* the text/event-json arm without the test of Event-Name
EventKey_NoNameTest(f) ==
    IF f.json # "obj" \/ f.job = -1 \/ (f.job = 0 /\ f.app = -1)
    THEN [act |-> "panic", why |-> "event", key |-> 0]
    ELSE IF f.job # 0 THEN [act |-> "lookup", why |-> "none", key |-> f.job]
    ELSE IF f.app # 0 THEN [act |-> "lookup", why |-> "none", key |-> f.app]
    ELSE [act |-> "drop", why |-> "none", key |-> 0]

\* What the text/event-json arm does with the body (lines 116-155): panic,
\* look a key up in background_jobs, or drop the frame
EventKey(f) ==
    IF f.json = "none" THEN [act |-> "panic", why |-> "event", key |-> 0]
    ELSE IF f.json = "bad" THEN [act |-> "panic", why |-> "event", key |-> 0]
    ELSE IF f.job # 0
         THEN IF f.job = -1 THEN [act |-> "panic", why |-> "event", key |-> 0]
              ELSE [act |-> "lookup", why |-> "none", key |-> f.job]
    ELSE IF f.app # 0
         THEN IF f.app = -1 THEN [act |-> "panic", why |-> "event", key |-> 0]
              ELSE IF f.name = "CHANNEL_EXECUTE_COMPLETE"
                   THEN [act |-> "lookup", why |-> "none", key |-> f.app]
                   ELSE [act |-> "drop", why |-> "none", key |-> 0]
    ELSE [act |-> "drop", why |-> "none", key |-> 0]

\* the table looked up but left as it is
RemoveJob_Keep(tbl, k) == tbl

\* HashMap::remove: the table without key k
RemoveJob(tbl, k) == [x \in (DOMAIN tbl) \ {k} |-> tbl[x]]

\* the queue read at its front but left as it is
PopFront_Peek(q) == q

\* VecDeque::pop_front: the queue without its front
PopFront(q) == Tail(q)

\* tx.send(event).expect(..): the frame goes into channel c, or the reader
\* task panics when the receiving half is gone
SendOrPanic(c, f) ==
    IF chan[c].rx
    THEN /\ chan' = Deliver(chan, c, f)
         /\ UNCHANGED <<reader, readerWhy>>
    ELSE /\ reader' = "panicked"
         /\ readerWhy' = "send"
         /\ chan' = chan

\* One iteration of the reader loop over a decoded frame
ReaderStep ==
    /\ reader = "running"
    /\ net_in # <<>>
    /\ net_in' = Tail(net_in)
    /\ LET f == Head(net_in)
           k == EventKey(f)
       IN CASE Route(f) = "exit" ->
                 /\ reader' = "exited"
                 /\ readerWhy' = "notice"
                 /\ UNCHANGED <<commands, background_jobs, chan, lost>>
            [] Route(f) = "event" /\ k.act = "panic" ->
                 /\ reader' = "panicked"
                 /\ readerWhy' = k.why
                 /\ UNCHANGED <<commands, background_jobs, chan, lost>>
            [] Route(f) = "event" /\ k.act = "lookup" ->
                 /\ IF k.key \in DOMAIN background_jobs
                    THEN /\ background_jobs' = RemoveJob(background_jobs, k.key)
                         /\ SendOrPanic(background_jobs[k.key], f)
                    ELSE UNCHANGED <<background_jobs, chan, reader, readerWhy>>
                 /\ UNCHANGED <<commands, lost>>
            [] Route(f) = "event" /\ k.act = "drop" ->
                 UNCHANGED <<commands, background_jobs, chan, lost, reader, readerWhy>>
            [] Route(f) = "fifo" ->
                 /\ IF commands # <<>>
                    THEN /\ commands' = PopFront(commands)
                         /\ SendOrPanic(Head(commands), f)
                         /\ lost' = lost
                    ELSE /\ lost' = lost \cup {f.re}
                         /\ UNCHANGED <<commands, chan, reader, readerWhy>>
                 /\ UNCHANGED background_jobs
    /\ UNCHANGED <<codecVars, mode, hs, hsErr, firstFrame, connected, call_uuid,
                   connection_info, sawEnd, tx_lock, net_out, rx_end, srvNext,
                   srvSeq, evLeft, task, calls, abandons, nextJob, sequential>>

\* transport_rx.next() yields None or Some(Err): the `if let` does not match
\* and the loop goes round again
ReaderPollEnd ==
    /\ reader = "running"
    /\ net_in = <<>>
    /\ rx_end # "open"
    /\ sawEnd' = TRUE
    /\ UNCHANGED <<codecVars, mode, hs, hsErr, firstFrame, connected, call_uuid,
                   connection_info, reader, readerWhy, commands,
                   background_jobs, tx_lock, net_out, net_in, rx_end, srvNext,
                   srvSeq, evLeft, chan, task, calls, abandons, nextJob, lost,
                   sequential>>

\* ------------------------------------------------------------ framed read
\* The framed reader (FramedRead over EslCodec): it reads some more bytes of
\* the stream into the buffer when the buffer holds no complete item ...
Fill ==
    /\ decoded.res \in {NotDecoded.res, Need.res}
    /\ nread < Len(Flatten(stream))
    /\ \E k \in 1..(Len(Flatten(stream)) - nread) :
          /\ src' = src \o SubSeq(Flatten(stream), nread + 1, nread + k)
          /\ nread' = nread + k
    /\ decoded' = Readable
    /\ UNCHANGED <<connVars, stream, items>>

\* ... and calls decode on the buffer after a read and after every item
Decode ==
    /\ decoded.res \in {Readable.res, "Item"}
    /\ LET d == decode(src) IN
          /\ decoded' = d.out
          /\ src' = d.rest
          /\ items' = IF d.out.res = "Item" THEN Append(items, d.out) ELSE items
    /\ UNCHANGED <<connVars, stream, nread>>

\* ------------------------------------------------------------------ Next
Peer ==
    \/ PeerHello
    \/ PeerReply
    \/ PeerEvent
    \/ PeerDisconnectNotice
    \/ PeerClose

Reader ==
    \/ ReaderStep
    \/ ReaderPollEnd

TaskStep(t) ==
    \/ SendLock(t)
    \/ SendWrite(t)
    \/ SendFail(t)
    \/ PushBack(t)
    \/ ApiRecv(t)
    \/ BgapiAck(t)
    \/ BgapiRecv(t)
    \/ ExecuteAck(t)
    \/ ExecuteRecv(t)
    \/ DisconnectRecv(t)

Handshake ==
    \/ NewInbound
    \/ NewOutbound
    \/ AuthRecv
    \/ SubscribeRecv
    \/ ConnectRecv
    \/ MyeventsRecv

Next ==
    \/ Peer
    \/ Reader
    \/ Handshake
    \/ \E t \in Tasks : TaskStep(t)
    \/ \E t \in Tasks : ApiCall(t)
    \/ \E t \in Tasks : BgapiCall(t)
    \/ \E t \in Tasks : ExecuteCall(t)
    \/ \E t \in Tasks : DisconnectCall(t)
    \/ \E t \in Tasks : Abandon(t)

Spec == Init /\ [][Next]_vars

\* Tokio runs every task that can make progress: the reader task, the
\* constructing task and the callers' started operations. The peer and the
\* callers' decisions to start or abandon a call are under no obligation.
FairSpec ==
    /\ Spec
    /\ WF_vars(Reader)
    /\ WF_vars(Handshake)
    /\ \A t \in Tasks : WF_vars(TaskStep(t))

\* The codec on its own: a stream of up to MaxFrames frames, read in pieces
\* of any size.
Streams == UNION {[1..n -> FrameKinds] : n \in 1..MaxFrames}

CodecInit ==
    /\ Unconstructed
    /\ mode = "Inbound"
    /\ stream \in Streams
    /\ nread = 0
    /\ src = <<>>
    /\ items = <<>>
    /\ decoded = NotDecoded

CodecNext ==
    \/ Fill
    \/ Decode

CodecSpec == CodecInit /\ [][CodecNext]_vars

\* ================================================================ claims
Resolved(c) == chan[c].val.ct \notin {NoFrame.ct, Taken}
Range(f) == {f[x] : x \in DOMAIN f}
Written(op) == \E i \in 1..Len(net_out) : net_out[i].op = op

\* C1: every command that has been written to the transport already has its
\* reply channel registered (send_recv puts the sender in the FIFO queue
\* before the write), and so the reader never drops a reply because it found
\* the queue empty.
C1_RegisteredBeforeWrite ==
    /\ \A i \in 1..Len(net_out) : \E c \in DOMAIN chan : chan[c].cmd = i
    /\ lost = {}

\* C2: the entries of the FIFO queue stand in the order in which their
\* commands were written to the transport, and a frame delivered to a FIFO
\* channel is the reply to the command of that channel's caller.
C2_QueueInWriteOrder ==
    /\ \A i, j \in 1..Len(commands) :
          i < j => chan[commands[i]].cmd < chan[commands[j]].cmd
    /\ \A c \in DOMAIN chan :
          (chan[c].cmd > 0 /\ Resolved(c)) => chan[c].val.re = chan[c].cmd

\* C3: when the public calls were issued one after another (none overlapped,
\* none was abandoned), every reply to an api command that the reader has
\* processed went to the call that wrote that command: it was not dropped,
\* and it is in no other call's channel.
C3_SequentialApiGetsOwnReply ==
    sequential =>
        \A i \in 1..Len(net_out) :
            net_out[i].op = "api" =>
                /\ i \notin lost
                /\ \A c \in DOMAIN chan :
                      (Resolved(c) /\ chan[c].val.re = i) => chan[c].cmd = i

\* ---- C4
\* this step is the reader task taking the frame at the head of net_in
ReaderTakes(ct) ==
    /\ hs # "new"
    /\ net_in # <<>>
    /\ Head(net_in).ct = ct
    /\ net_in' = Tail(net_in)

\* the job registered under x is resolved: its entry leaves the table, or a
\* frame is sent into its channel
JobResolved(x) ==
    \/ x \notin DOMAIN background_jobs'
    \/ chan'[background_jobs[x]].n > chan[background_jobs[x]].n

\* the entry registered under x stays, and no frame is sent into its channel
JobKept(x) ==
    /\ x \in DOMAIN background_jobs'
    /\ background_jobs'[x] = background_jobs[x]
    /\ chan'[background_jobs[x]].val = chan[background_jobs[x]].val
    /\ chan'[background_jobs[x]].n = chan[background_jobs[x]].n

BgapiJobs == {x \in DOMAIN background_jobs : chan[background_jobs[x]].kind = "bgapi"}

\* the frame names x in Job-UUID
CarriesJobUuid(f, x) == f.json = "obj" /\ f.job = x

\* the frame has no Job-UUID and is the execute-completion event of x
CompletesApplication(f, x) ==
    /\ f.json = "obj"
    /\ f.job = 0
    /\ f.app = x
    /\ f.name = "CHANNEL_EXECUTE_COMPLETE"

\* what a text/event-json frame may do to the correlation state, given the
\* test Names(f, x) for "frame f addresses the job registered under x"
EventEffect(Names(_, _)) ==
    LET f == Head(net_in) IN
    /\ \A x \in BgapiJobs :
          /\ JobResolved(x) => (ReaderTakes("text/event-json") /\ Names(f, x))
          /\ (ReaderTakes("text/event-json") /\ ~Names(f, x)) => JobKept(x)
    /\ ReaderTakes("text/event-json") =>
          /\ commands' = commands
          /\ \A c \in Range(commands) : chan'[c] = chan[c]
          /\ (\A x \in DOMAIN background_jobs : ~Names(f, x)) =>
                /\ background_jobs' = background_jobs
                /\ \A c \in DOMAIN chan : chan'[c].n = chan[c].n

\* C4 as stated: a bgapi job registered under X is resolved only by an
\* event-json frame whose body carries Job-UUID X; a frame carrying another
\* id does not touch it, is dropped when it matches no entry, and leaves the
\* other entries of the table and the FIFO queue as they were.
C4_OnlyJobUuidResolves == [][EventEffect(CarriesJobUuid)]_vars

\* C4 amended: the job registered under X is resolved only by an event-json
\* frame that carries Job-UUID X, or that carries no Job-UUID and is the
\* CHANNEL_EXECUTE_COMPLETE event with Application-UUID X; every other
\* event-json frame leaves it untouched, is dropped when it addresses no
\* entry, and no event-json frame changes the FIFO queue.
AddressesJob(f, x) == CarriesJobUuid(f, x) \/ CompletesApplication(f, x)
C4_OnlyItsEventResolves == [][EventEffect(AddressesJob)]_vars

\* a bgapi job has been resolved by the event carrying its Job-UUID while
\* another call's channel was waiting in the FIFO queue
C4_Witness ==
    \E c \in DOMAIN chan :
        /\ chan[c].kind = "bgapi" /\ chan[c].jid > 0
        /\ Resolved(c) /\ chan[c].val.job = chan[c].jid
        /\ commands # <<>>

\* ---- C5
\* C5: no channel is resolved more than once, a channel that was resolved is
\* no longer in the FIFO queue nor in the UUID table, and no frame is in two
\* channels.
C5_ResolvedAtMostOnce ==
    /\ \A c \in DOMAIN chan : chan[c].n <= 1
    /\ \A c \in DOMAIN chan :
          chan[c].n >= 1 => (c \notin Range(commands) /\ c \notin Range(background_jobs))
    /\ \A c, d \in DOMAIN chan :
          (c # d /\ Resolved(c) /\ Resolved(d)) => chan[c].val.seq # chan[d].val.seq

\* a FIFO channel and a job channel have both been resolved while another
\* entry was still pending
C5_Witness ==
    /\ \E c \in DOMAIN chan : chan[c].jid > 0 /\ chan[c].n = 1
    /\ \E c \in DOMAIN chan : chan[c].kind = "api" /\ chan[c].n = 1
    /\ commands # <<>>

\* ---- C6
\* task t awaits a channel that holds no frame and whose sender is still
\* kept in the FIFO queue or the UUID table
Suspended(t) ==
    \/ /\ task[t].pc = "wait"
       /\ ~Resolved(task[t].ch)
       /\ task[t].ch \in Range(commands)
    \/ /\ task[t].pc = "waitjob"
       /\ ~Resolved(task[t].jch)
       /\ task[t].jch \in Range(background_jobs)

\* C6: once the reader loop has ended on text/disconnect-notice, no api call
\* stays suspended on a channel that nothing can resolve any more: the call
\* is given a connection-closed error.
C6_NoApiCallLeftSuspended ==
    \A t \in Tasks :
        (reader = "exited" /\ readerWhy = "notice" /\ task[t].op = "api")
            => ~Suspended(t)

\* C6 as a liveness property: an api call that is pending when the reader
\* loop has ended on the disconnect notice eventually returns.
C6_PendingApiReturns ==
    \A t \in Tasks :
        (reader = "exited" /\ task[t].op = "api" /\ task[t].pc = "wait")
            ~> (task[t].pc = "idle")

\* ---- C7
\* C7: when the read side of the transport has ended and the reader has seen
\* it, the reader loop has terminated and no caller is left suspended.
C7_ReaderEndsWithStream ==
    sawEnd => (reader # "running" /\ \A t \in Tasks : ~Suspended(t))

\* C7 as a liveness property: once the read side has ended, the reader loop
\* eventually terminates.
C7_ReaderEventuallyEnds ==
    (rx_end = "ended" /\ reader = "running") ~> (reader # "running")

\* ---- C8
\* C8: a delivery that fails because the caller dropped its receiving half
\* does not end the reader task.
C8_FailedDeliveryKeepsReader == ~(reader = "panicked" /\ readerWhy = "send")

\* ---- C9
\* The status a wire text of TextOf carries in its first token ("NoStatus"
\* for a text without a status line: no Reply-Text at all, or no whitespace
\* after the token).
StatusOf(n) ==
    CASE n \in {"ok", "okbare"} -> "Ok"
      [] n = "err" -> "Err"
      [] n = "unk" -> "Unknown"
      [] OTHER -> "NoStatus"

\* this step is auth() taking the reply to the auth command
AuthReplyTaken ==
    /\ task["main"].op = "auth"
    /\ task["main"].pc = "wait"
    /\ task'["main"] # task["main"]

AuthOutcome ==
    AuthReplyTaken =>
        LET st == StatusOf(chan[task["main"].ch].val.txt) IN
        CASE st = "Ok" ->
                /\ connected'
                /\ hs' = "handshaking" /\ hsErr' = "none"
                /\ task'["main"].op = "subscribe" /\ task'["main"].pc = "send"
          [] st = "Err" ->
                hs' = "failed" /\ hsErr' = "AuthFailed" /\ ~connected'
          [] st = "Unknown" ->
                hs' = "failed" /\ hsErr' = "UnknownCode" /\ ~connected'
          [] OTHER -> TRUE

\* C9: in the inbound handshake a reply to auth with status Ok sets
\* connected and construction goes on to subscribe; status Err ends it with
\* AuthFailed and an unrecognized status with a protocol error; a handle is
\* returned only with connected set, and a construction that failed on the
\* reply to auth never set it.
C9_AuthDecidesConstruction ==
    /\ [][AuthOutcome]_vars
    /\ [](mode = "Inbound" =>
            /\ hs = "ready" => connected
            /\ (hs = "failed" /\ hsErr # "TransportError") => ~connected
            /\ connected => \/ hs \in {"handshaking", "ready", "disconnecting",
                                        "closed"}
                            \/ hsErr = "TransportError")

\* the inbound construction has returned a handle after an accepted auth
C9_Witness == mode = "Inbound" /\ hs = "ready" /\ connected

\* ---- C10
\* C10: in inbound mode a first frame that is not auth/request makes
\* construction fail without the auth command being written and without the
\* reader task being spawned; auth is written only after an auth/request.
C10_AuthOnlyAfterAuthRequest ==
    mode = "Inbound" =>
        /\ firstFrame \notin {"unread", "auth/request"} =>
              (hs = "failed" /\ ~Written("auth") /\ reader = "unspawned")
        /\ (Written("auth") \/ reader # "unspawned") => firstFrame = "auth/request"

\* ---- C11
\* new() has returned Ok(connection)
HandleReturned == hs \in {"ready", "disconnecting", "closed"}

\* the commands of the outbound handshake, in the order new() sends them
HandshakeOrder == <<"connect", "subscribe", "myevents">>

\* the constructing task has taken the reply to the command written i-th
ReplyTaken(i) ==
    \E c \in DOMAIN chan :
        chan[c].cmd = i /\ chan[c].n = 1 /\ chan[c].val.ct = Taken

\* this step is the constructing task taking a frame from its reply channel
HandshakeReplyTaken ==
    /\ task["main"].pc = "wait"
    /\ task["main"].op \in {"connect", "subscribe", "myevents"}
    /\ task'["main"] # task["main"]

\* C11: the outbound handshake writes connect, event json and myevents in
\* this order and nothing else, each command only after the constructing task
\* has taken the reply to the one before, and what it takes is the reply to
\* that very command; a handle is returned only after the three replies, with
\* the call identifier set from the connect reply; no public operation
\* starts before the handle is returned.
C11_OutboundHandshakeInOrder ==
    /\ [][(mode = "Outbound" /\ HandshakeReplyTaken) =>
            chan[task["main"].ch].val.re = task["main"].cmd]_vars
    /\ [](mode = "Outbound" =>
            /\ \A i \in 1..Len(net_out) :
                  i <= 3 => /\ net_out[i].op = HandshakeOrder[i]
                            /\ i > 1 => ReplyTaken(i - 1)
            /\ ~HandleReturned => (Len(net_out) <= 3 /\ calls = 0)
            /\ HandleReturned => /\ Len(net_out) >= 3
                                 /\ ReplyTaken(3)
                                 /\ call_uuid
                                 /\ connection_info = "uid")

\* an outbound construction has returned a handle and a public operation has
\* written its command on it
C11_Witness ==
    mode = "Outbound" /\ hs = "ready" /\ call_uuid /\ Len(net_out) > 3

\* ---- C12
\* this step is the api or bgapi call of task t returning the result it made
\* of the frame in channel c
ReturnsFrom(t, c) ==
    /\ \/ task[t].op = "api" /\ task[t].pc = "wait" /\ c = task[t].ch
       \/ task[t].op = "bgapi" /\ task[t].pc = "waitjob" /\ c = task[t].jch
    /\ task'[t].pc = "idle"
    /\ task'[t].res # "Cancelled"

\* what the return of an Err status does and leaves alone
ErrReturn(t, c) ==
    /\ task'[t].res = "ApiError" <=> StatusOf(chan[c].val.txt) = "Err"
    /\ task'[t].res = "ApiError" =>
          /\ \A u \in Tasks \ {t} : task'[u] = task[u]
          /\ UNCHANGED <<connected, hs, reader, readerWhy, commands,
                         background_jobs, tx_lock, net_out, net_in>>
          /\ \A d \in DOMAIN chan \ {c} : chan'[d] = chan[d]
          /\ task[t].ch \notin Range(commands)
          /\ task[t].jch \notin Range(background_jobs)
          /\ task[t].job \notin DOMAIN background_jobs

\* C12: an api or bgapi call returns ApiError exactly when the frame it
\* received carries the Err status; that return goes to this caller only and
\* leaves the connected flag, the reader task, the FIFO queue, the UUID table
\* and every other channel as they were, with no entry of the failed call
\* left in the queue or the table; and a frame a later call receives is the
\* reply to that call's own command.
C12_ApiErrorLeavesConnectionUsable ==
    /\ [][\A t \in Tasks : \A c \in DOMAIN chan :
             ReturnsFrom(t, c) => ErrReturn(t, c)]_vars
    /\ [](\A t, u \in Tasks :
             (sequential /\ task[t].res = "ApiError" /\ task[u].pc = "wait"
                /\ Resolved(task[u].ch))
                => chan[task[u].ch].val.re = task[u].cmd)

\* an api call returned ApiError and the next api call on the connection has
\* been given its own reply, with status Ok
C12_Witness ==
    \E t, u \in Tasks :
        /\ sequential
        /\ task[t].res = "ApiError"
        /\ task[u].op = "api" /\ task[u].pc = "wait"
        /\ Resolved(task[u].ch)
        /\ chan[task[u].ch].val.txt = "ok"
        /\ chan[task[u].ch].val.re = task[u].cmd
        /\ reader = "running"

\* ---- C13
\* the commands that carry a correlation id
JobCommands == {i \in 1..Len(net_out) : net_out[i].op \in {"bgapi", "execute"}}

\* the id of the command written i-th still has its entry in the UUID table
Registered(i) ==
    /\ net_out[i].job \in DOMAIN background_jobs
    /\ chan[background_jobs[net_out[i].job]].jid = net_out[i].job

\* the reader has taken that entry out of the table to send into its channel
Consumed(i) ==
    \E c \in DOMAIN chan :
        /\ chan[c].jid = net_out[i].job
        /\ chan[c].n = 1 \/ ~chan[c].rx

\* C13: whenever a bgapi or sendmsg command is on the transport, the job
\* channel of its correlation id was put in the UUID table before: the table
\* holds the entry from the write on, until the reader takes it out for the
\* completion event; so a completion event for the id of a written command
\* never finds the table without an entry that was never there.
C13_JobRegisteredBeforeWrite ==
    \A i \in JobCommands : Registered(i) \/ Consumed(i)

\* a bgapi command and a sendmsg command are both on the transport with
\* their entries in the table
C13_Witness ==
    /\ \E i \in JobCommands : net_out[i].op = "bgapi" /\ Registered(i)
    /\ \E i \in JobCommands : net_out[i].op = "execute" /\ Registered(i)

\* ---- C14
\* the reader has processed both the reply to the sendmsg command of task t
\* and its completion event, the reply was dropped on the empty queue, and
\* the execute call waits on a reply channel that holds nothing
ExecuteStuck(t) ==
    /\ task[t].op = "execute"
    /\ task[t].pc = "wait"
    /\ task[t].cmd \in lost
    /\ ~Resolved(task[t].ch)
    /\ Resolved(task[t].jch)
    /\ chan[task[t].jch].val.app = task[t].job

\* C14: once the reader has processed both the acknowledgment of an execute
\* call and its CHANNEL_EXECUTE_COMPLETE event, in either order, the call has
\* both (it holds them or has returned): it is never left waiting for an
\* acknowledgment that has already come.
C14_ExecuteReturnsOnceBothArrived == \A t \in Tasks : ~ExecuteStuck(t)

\* The part of C14 about what execute waits for: it returns Ok only from the
\* wait for the completion event, after it took the acknowledgment, and a
\* completion event delivered before that stays in the job channel until the
\* call takes it or is abandoned.
C14_ReturnsOnlyAfterBoth ==
    [][\A t \in Tasks :
          /\ (task[t].op = "execute" /\ task'[t].pc = "idle" /\ task'[t].res = "Ok")
                => /\ task[t].pc = "waitjob"
                   /\ Resolved(task[t].jch)
                   /\ chan[task[t].ch].n = 1 /\ chan[task[t].ch].val.ct = Taken
          /\ (task[t].op = "execute" /\ task[t].jch > 0 /\ Resolved(task[t].jch)
                /\ task'[t].op = "execute")
                => chan'[task[t].jch].val = chan[task[t].jch].val]_vars

\* ---- C15
\* this step is a call of decode
DecodeTaken ==
    /\ decoded.res \in {Readable.res, "Item"}
    /\ nread' = nread

\* buffer b begins with the whole frame f / is a part of f that ends before f
StartsWith(b, f) == Len(b) >= Len(f) /\ SubSeq(b, 1, Len(f)) = f
ProperPrefix(b, f) == Len(b) < Len(f) /\ b = SubSeq(f, 1, Len(b))

\* C15: when the buffer holds a proper prefix of a frame (of a content type
\* the decoder knows), decode reports that it needs more data, does not
\* panic, and leaves the buffer as it was.
C15_PartialFrameNeedsMoreData ==
    [][(DecodeTaken /\ \E n \in DecodedKinds : ProperPrefix(src, WireFrame(n)))
          => (decoded' = Need /\ src' = src)]_vars

\* ---- C16
\* C16: a call of decode that returns an item takes exactly the bytes of the
\* one frame at the front of the buffer and leaves the bytes after it.
C16_DecodeConsumesOneFrame ==
    [][(DecodeTaken /\ decoded'.res = "Item")
          => \E n \in DecodedKinds :
                /\ StartsWith(src, WireFrame(n))
                /\ src' = SubSeq(src, Len(WireFrame(n)) + 1, Len(src))]_vars

\* C16, the consequence: when a stream of frames the decoder knows has been
\* read and decoded to the end, every frame has yielded its item.
C16_NoFrameLost ==
    ((\A i \in 1..Len(stream) : stream[i] \in DecodedKinds)
        /\ nread = Len(Flatten(stream)) /\ decoded = Need)
      => Len(items) = Len(stream)

\* ---- C17
\* C17: decode of a complete header block whose Content-Type is none of the
\* known ones, or is absent, does not panic.
C17_UnknownTypeDoesNotPanic ==
    [][(DecodeTaken /\ \E n \in {"plain", "notype"} : StartsWith(src, WireFrame(n)))
          => decoded'.res # "panic"]_vars

\* ---- C18
\* this step is the reader task taking the frame at the head of net_in
ReaderTakesFrame ==
    /\ hs # "new"
    /\ net_in # <<>>
    /\ net_in' = Tail(net_in)

QueueBypassed == {"text/event-json", "text/disconnect-notice"}

C19_NoticeReachesReader ==
    [][(DecodeTaken /\ StartsWith(src, WireFrame("notice")))
          => decoded'.res = "Item"]_vars

\* The part of C19 about the reader loop, given a decoded notice: the loop
\* ends on it, and from then on no frame is sent into any channel and no
\* entry leaves the FIFO queue or the UUID table.
C19_NothingDeliveredAfterNotice ==
    /\ [][(ReaderTakesFrame /\ Head(net_in).ct = "text/disconnect-notice")
            => (reader' = "exited" /\ readerWhy' = "notice")]_vars
    /\ [][(reader = "exited")
            => /\ reader' = "exited"
               /\ \A c \in DOMAIN chan : chan'[c].n = chan[c].n
               /\ \A c \in Range(commands) : c \in Range(commands')
               /\ \A x \in DOMAIN background_jobs : x \in DOMAIN background_jobs']_vars

\* ---- C20
\* this step works under the lock of the FIFO queue / of the UUID table
TakesQueueLock == commands' # commands
TakesTableLock == background_jobs' # background_jobs

\* C20: the holder of the transport lock is inside send(), at the write,
\* where it needs no other lock and is never kept waiting; a step under the
\* queue lock or the table lock is not made by the holder of the transport
\* lock, leaves that lock alone, and is never under both; so no task holds
\* two of the three locks and no task that holds one waits for another.
C20_AtMostOneLock ==
    /\ [](tx_lock \in Tasks => task[tx_lock].pc = "write")
    /\ [][(TakesQueueLock \/ TakesTableLock)
            => /\ ~(TakesQueueLock /\ TakesTableLock)
               /\ tx_lock' = tx_lock
               /\ tx_lock \in Tasks => task'[tx_lock] = task[tx_lock]]_vars

\* one caller holds the transport lock while another waits for it, with an
\* entry in the UUID table and the reader running
C20_Witness ==
    \E t, u \in Tasks :
        /\ t # u
        /\ tx_lock = t
        /\ task[u].pc = "send"
        /\ DOMAIN background_jobs # {}
        /\ reader = "running"

\* ---- C21
\* C21: when the reply to connect carries no Channel-Unique-ID, the outbound
\* construction ends with an error value and without a handle; the
\* constructing task does not panic.
C21_MissingCallIdIsError ==
    (mode = "Outbound" /\ connection_info = "nouid")
        => /\ hs \in {"handshaking", "failed"}
           /\ task["main"].res # "panic"

\* ---- C22
\* this step is the bgapi or execute call of task t returning, with a result
\* or with an error
JobCallReturns(t) ==
    /\ task[t].op \in {"bgapi", "execute"}
    /\ task'[t].pc = "idle"
    /\ task'[t].res \notin {"Cancelled", "panic"}

\* C22: when a bgapi or execute call returns, with a result or with an
\* error, the UUID table no longer holds the entry registered under the
\* call's correlation id.
C22_ReturnedCallLeavesNoEntry ==
    [][\A t \in Tasks :
          JobCallReturns(t) => task[t].job \notin DOMAIN background_jobs']_vars

\* ---- C23
\* C23: a handle a successful construction has returned reports connected
\* true, in inbound and in outbound mode.
C23_ReturnedHandleIsConnected == hs = "ready" => connected

\* ---- C24
\* C24: once the reader loop has ended on the disconnect notice, connected
\* is false.
C24_NoticeClearsConnected ==
    (reader = "exited" /\ readerWhy = "notice") => ~connected

====
